---- MODULE Spec2Model ----
(***************************************************************************)
(* A model of multiWeatherProvider.temperature (src/main.go): the fan-out  *)
(* of one query to the providers of the set, the two buffered channels,    *)
(* the collection loop with its select, and the float64 reduction of the   *)
(* collected temperatures to the reported Fahrenheit value.                *)
(*                                                                         *)
(* float64 values are modelled bit-exactly: a finite value is              *)
(* (-1)^s * m * 2^e with m a 53-bit significand, kept as a little-endian   *)
(* sequence of 15-bit limbs, and every operation rounds its exact result   *)
(* to nearest, ties to even, as IEEE-754 binary64 does.                    *)
(***************************************************************************)
EXTENDS Integers, Sequences, FiniteSets, TLC

(* ------------------------- natural numbers ------------------------- *)

\* A natural number of any size is the little-endian sequence of its limbs,
\* the digits of base LimbBase, without leading zero limbs; <<>> is zero.
LimbBits == 15
LimbBase == 32768
BigNat == Seq(Nat)

Pow2[k \in Nat] == IF k = 0 THEN 1 ELSE 2 * Pow2[k - 1]

\* the number of bits of a limb
SmallBitLen[x \in Nat] == IF x = 0 THEN 0 ELSE 1 + SmallBitLen[x \div 2]

NormFrom[a \in BigNat, n \in Nat] ==
    IF n = 0 THEN <<>>
    ELSE IF a[n] = 0 THEN NormFrom[a, n - 1] ELSE SubSeq(a, 1, n)

\* a without its leading zero limbs
BNorm[a \in BigNat] == NormFrom[a, Len(a)]

BLimb(a, i) == IF i <= Len(a) THEN a[i] ELSE 0

BAddFrom[a \in BigNat, b \in BigNat, i \in Nat, c \in Nat] ==
    IF i > Len(a) /\ i > Len(b)
    THEN (IF c = 0 THEN <<>> ELSE <<c>>)
    ELSE LET x == BLimb(a, i) + BLimb(b, i) + c
         IN  <<x % LimbBase>> \o BAddFrom[a, b, i + 1, x \div LimbBase]

\* a + b
BAdd[a \in BigNat, b \in BigNat] == BAddFrom[a, b, 1, 0]

BSubFrom[a \in BigNat, b \in BigNat, i \in Nat, c \in Nat] ==
    IF i > Len(a) THEN <<>>
    ELSE LET x == a[i] - BLimb(b, i) - c
         IN  <<x % LimbBase>> \o BSubFrom[a, b, i + 1, IF x < 0 THEN 1 ELSE 0]

\* a - b, for a >= b
BSub[a \in BigNat, b \in BigNat] == BNorm[BSubFrom[a, b, 1, 0]]

BCmpFrom[a \in BigNat, b \in BigNat, i \in Nat] ==
    IF i = 0 THEN 0
    ELSE IF a[i] < b[i] THEN -1
    ELSE IF a[i] > b[i] THEN 1
    ELSE BCmpFrom[a, b, i - 1]

\* -1, 0 or 1 as a < b, a = b or a > b
BCmp[a \in BigNat, b \in BigNat] ==
    IF Len(a) < Len(b) THEN -1
    ELSE IF Len(a) > Len(b) THEN 1
    ELSE BCmpFrom[a, b, Len(a)]

BMulSmallFrom[a \in BigNat, d \in Nat, i \in Nat, c \in Nat] ==
    IF i > Len(a)
    THEN (IF c = 0 THEN <<>> ELSE <<c>>)
    ELSE LET x == a[i] * d + c
         IN  <<x % LimbBase>> \o BMulSmallFrom[a, d, i + 1, x \div LimbBase]

\* a * d, for a factor d <= LimbBase
BMulSmall[a \in BigNat, d \in Nat] == BNorm[BMulSmallFrom[a, d, 1, 0]]

BZeros[n \in Nat] == IF n = 0 THEN <<>> ELSE <<0>> \o BZeros[n - 1]

\* a * LimbBase^n
BShlLimbs[a \in BigNat, n \in Nat] == IF a = <<>> THEN a ELSE BZeros[n] \o a

BMulFrom[a \in BigNat, b \in BigNat, i \in Nat] ==
    IF i > Len(b) THEN <<>>
    ELSE BAdd[BShlLimbs[BMulSmall[a, b[i]], i - 1], BMulFrom[a, b, i + 1]]

\* a * b
BMul[a \in BigNat, b \in BigNat] == BMulFrom[a, b, 1]

BDivSmallFrom[a \in BigNat, d \in Nat, i \in Nat, r \in Nat, q \in BigNat] ==
    IF i = 0 THEN [q |-> BNorm[q], r |-> r]
    ELSE LET x == r * LimbBase + a[i]
         IN  BDivSmallFrom[a, d, i - 1, x % d, <<x \div d>> \o q]

\* quotient q and remainder r of a by d, for a divisor 0 < d <= LimbBase
BDivSmall[a \in BigNat, d \in Nat] == BDivSmallFrom[a, d, Len(a), 0, <<>>]

\* a * 2^k
BShl[a \in BigNat, k \in Nat] ==
    BShlLimbs[BMulSmall[a, Pow2[k % LimbBits]], k \div LimbBits]

\* a \div 2^k
BShr[a \in BigNat, k \in Nat] ==
    IF k \div LimbBits >= Len(a) THEN <<>>
    ELSE BDivSmall[SubSeq(a, k \div LimbBits + 1, Len(a)), Pow2[k % LimbBits]].q

\* the number of bits of a
BitLen[a \in BigNat] ==
    IF a = <<>> THEN 0
    ELSE LimbBits * (Len(a) - 1) + SmallBitLen[a[Len(a)]]

BIsOdd(a) == a # <<>> /\ a[1] % 2 = 1

\* the natural number n < 2^31
BFromInt[n \in Nat] == IF n = 0 THEN <<>> ELSE <<n % LimbBase>> \o BFromInt[n \div LimbBase]

(* ----------------------------- float64 ----------------------------- *)

\* A float64 is [k, s, m, e]: for k = "num" the value (-1)^s * m * 2^e with m
\* zero or a significand of MantBits bits; k = "inf" is the infinity of sign
\* s and k = "nan" is not a number. Subnormals, overflow and the sign of zero
\* are outside the range of the values modelled.
MantBits == 53
Float == [k : {"num", "inf", "nan"}, s : {0, 1}, m : BigNat, e : Int]

NaN  == [k |-> "nan", s |-> 0, m |-> <<>>, e |-> 0]
Zero == [k |-> "num", s |-> 0, m |-> <<>>, e |-> 0]
Inf(s) == [k |-> "inf", s |-> s, m |-> <<>>, e |-> 0]

\* An exact value (-1)^s * m * 2^e, with m of any size.
Exact == [s : {0, 1}, m : BigNat, e : Int]
Ex(x) == [s |-> x.s, m |-> x.m, e |-> x.e]

\* the rounded significand q; rounding up may have carried into a further bit
RoundCarry[s \in {0, 1}, q \in BigNat, e \in Int] ==
    IF BitLen[q] > MantBits
    THEN [k |-> "num", s |-> s, m |-> BShr[q, 1], e |-> e + 1]
    ELSE [k |-> "num", s |-> s, m |-> q, e |-> e]

\* q, the upper MantBits bits of m, is rounded up when the d bits cut off are
\* more than half, or are half and q is odd
RoundCut[s \in {0, 1}, m \in BigNat, e \in Int, d \in Nat, q \in BigNat] ==
    LET c == BCmp[BSub[m, BShl[q, d]], BShl[<<1>>, d - 1]]
    IN  RoundCarry[s, IF c = 1 \/ (c = 0 /\ BIsOdd(q)) THEN BAdd[q, <<1>>] ELSE q, e + d]

RoundLen[s \in {0, 1}, m \in BigNat, e \in Int, len \in Nat] ==
    IF len = 0 THEN Zero
    ELSE IF len <= MantBits
    THEN [k |-> "num", s |-> s, m |-> BShl[m, MantBits - len], e |-> e - (MantBits - len)]
    ELSE RoundCut[s, m, e, len - MantBits, BShr[m, len - MantBits]]

\* The exact value (-1)^s * m * 2^e rounded to the nearest float64, ties to even.
Round[s \in {0, 1}, m \in BigNat, e \in Int] == RoundLen[s, m, e, BitLen[m]]

RoundExact[r \in Exact] == Round[r.s, r.m, r.e]

ExactAligned[xs \in {0, 1}, ys \in {0, 1}, mx \in BigNat, my \in BigNat, e \in Int] ==
    LET c == BCmp[mx, my]
    IN  IF xs = ys THEN [s |-> xs, m |-> BAdd[mx, my], e |-> e]
        ELSE IF c = 0 THEN [s |-> 0, m |-> <<>>, e |-> 0]
        ELSE IF c = 1 THEN [s |-> xs, m |-> BSub[mx, my], e |-> e]
        ELSE [s |-> ys, m |-> BSub[my, mx], e |-> e]

\* x + y, exactly
ExactAdd[x \in Exact, y \in Exact] ==
    LET e == IF x.e < y.e THEN x.e ELSE y.e
    IN  ExactAligned[x.s, y.s, BShl[x.m, x.e - e], BShl[y.m, y.e - e], e]

\* x * y, exactly
ExactMul[x \in Exact, y \in Exact] ==
    IF x.m = <<>> \/ y.m = <<>> THEN [s |-> 0, m |-> <<>>, e |-> 0]
    ELSE [s |-> (x.s + y.s) % 2, m |-> BMul[x.m, y.m], e |-> x.e + y.e]

IsZero(x) == x.k = "num" /\ x.m = <<>>

\* -x
FNeg[x \in Float] == IF x.k = "nan" \/ IsZero(x) THEN x ELSE [x EXCEPT !.s = 1 - x.s]

\* x + y
FAdd[x \in Float, y \in Float] ==
    IF x.k = "nan" \/ y.k = "nan" THEN NaN
    ELSE IF x.k = "inf" /\ y.k = "inf" THEN (IF x.s = y.s THEN x ELSE NaN)
    ELSE IF x.k = "inf" THEN x
    ELSE IF y.k = "inf" THEN y
    ELSE RoundExact[ExactAdd[Ex(x), Ex(y)]]

\* x - y
FSub[x \in Float, y \in Float] == FAdd[x, FNeg[y]]

\* x * y
FMul[x \in Float, y \in Float] ==
    IF x.k = "nan" \/ y.k = "nan" THEN NaN
    ELSE IF x.k = "inf" \/ y.k = "inf"
    THEN (IF IsZero(x) \/ IsZero(y) THEN NaN ELSE Inf((x.s + y.s) % 2))
    ELSE RoundExact[ExactMul[Ex(x), Ex(y)]]

\* x*y + z with a single rounding (a fused multiply-add)
FMulAdd[x \in Float, y \in Float, z \in Float] ==
    IF x.k # "num" \/ y.k # "num" \/ z.k # "num" THEN FAdd[FMul[x, y], z]
    ELSE RoundExact[ExactAdd[ExactMul[Ex(x), Ex(y)], Ex(z)]]

\* a quotient with the remainder of its last division, and a quotient with
\* the mark of a remainder dropped on the way
QuotRem == [q : BigNat, r : Nat]
QuotSticky == [q : BigNat, sticky : BOOLEAN]

\* r.q \div (ds[i] * ... * ds[Len(ds)]), and whether a remainder was dropped
DivAll[r \in QuotRem, ds \in Seq(Nat), i \in Nat, sticky \in BOOLEAN] ==
    IF i > Len(ds) THEN [q |-> r.q, sticky |-> sticky \/ r.r # 0]
    ELSE DivAll[BDivSmall[r.q, ds[i]], ds, i + 1, sticky \/ r.r # 0]

\* the quotient r.q with a last bit that stands for the remainder dropped
RoundSticky[s \in {0, 1}, r \in QuotSticky, e \in Int] ==
    Round[s, BAdd[BShl[r.q, 1], IF r.sticky THEN <<1>> ELSE <<>>], e]

\* (-1)^s * n / (ds[1] * ds[2] * ...) * 2^e rounded to the nearest float64,
\* for divisors 0 < ds[i] <= LimbBase
RoundRatio[s \in {0, 1}, n \in BigNat, ds \in Seq(Nat), e \in Int] ==
    LET k == 64 + LimbBits * Len(ds)
    IN  IF n = <<>> THEN Zero
        ELSE RoundSticky[s, DivAll[[q |-> BShl[n, k], r |-> 0], ds, 1, FALSE], e - k - 1]

\* float64(n), for a natural number n
FromInt[n \in Nat] == Round[0, BFromInt[n], 0]

\* x / float64(n), for a natural number n <= LimbBase: float64(n) is n
\* exactly, so the quotient is x.m / n * 2^x.e, rounded once
FDivNat[x \in Float, n \in Nat] ==
    IF x.k = "nan" THEN NaN
    ELSE IF x.k = "inf" THEN x
    ELSE IF n = 0 THEN (IF x.m = <<>> THEN NaN ELSE Inf(x.s))
    ELSE RoundRatio[x.s, x.m, <<n>>, x.e]

(* ------------------------ the program's values ------------------------ *)

\* The largest provider set of the model.
MaxN == 3

\* A decimal literal n / d, as the compiler converts it to float64.
Dec(n, d) == RoundRatio[0, BFromInt[n], <<d>>, 0]

\* c := avg - 273.15
KelvinOffset == Dec(27315, 100)
\* f := c*1.8 + 32
FahrenheitFactor == Dec(18, 10)
FahrenheitOffset == FromInt[32]

\* The canonical (Kelvin) temperatures a provider call may return.
TempValues == {Dec(27315, 100), FromInt[290], FromInt[300], FromInt[310], Dec(2502, 10)}

\* The error values: nil, and the errors a provider call may return. Each call
\* makes its own error value, so an error carries the provider that made it.
NoError == [kind |-> "nil", by |-> 0]
ErrKinds == {"UpstreamError", "DecodeError"}
ProviderErrors(p) == {[kind |-> kd, by |-> p] : kd \in ErrKinds}

\* What a provider's temperature(city) returns: (k, nil) or (0, err).
ProviderOutcomes(p) ==
    {[k |-> t, err |-> NoError] : t \in TempValues}
        \cup {[k |-> Zero, err |-> e] : e \in ProviderErrors(p)}

NotReturned == [k |-> Zero, err |-> [kind |-> "pending", by |-> 0]]

(* ------------------------------ the state ------------------------------ *)

VARIABLES
    w,        \* the provider set: the providers 1..Len(w), in declaration order
    gpc,      \* each provider's goroutine: "idle", "call", "send" or "done"
    ret,      \* what each provider's call returned (k, err of the goroutine)
    temps,    \* the buffered channel of temperatures
    errs,     \* the buffered channel of errors
    pc,       \* the aggregator: "spawn", "collect" or "done" (and "seq": the
              \* loop of the sequential temperature(city, providers...))
    j,        \* the range loop's position in w
    i,        \* the collection loop's counter
    sum,      \* the collection loop's sum
    result,   \* what temperature(city) returned: [f, err]
    tempLog,  \* history: the temperatures sent, with their provider, in order
    errLog,   \* history: the errors sent, with their provider, in order
    queries,  \* the concurrent calls of multiWeatherProvider.temperature
    fetch     \* a call of one concrete provider's temperature(city)

vars == <<w, gpc, ret, temps, errs, pc, j, i, sum, result, tempLog, errLog,
          queries, fetch>>

\* the state of the calls an action of one call's own goroutines leaves alone
side == <<queries, fetch>>

\* no concurrent calls; no provider call followed step by step
NoQueries == <<>>
NoFetch == [pc |-> "none"]

Providers == 1..Len(w)

\* (mutant) channels one slot short of the provider count
ChanCapShort == Len(w) - 1

\* make(chan float64, len(w)), make(chan error, len(w))
ChanCap == Len(w)

\* (mutant) i <= len(w): the loop waits for one outcome more than there are
LoopBoundInclusive == Len(w) + 1

\* (mutant) i < len(w) - 1: the loop stops one outcome short
LoopBoundShort == Len(w) - 1

\* for i := 0; i < len(w); i++
LoopBound == Len(w)

NoResult == [f |-> Zero, err |-> [kind |-> "pending", by |-> 0]]

Init ==
    /\ w \in {[p \in 1..n |-> p] : n \in 0..MaxN}
    /\ gpc = [p \in Providers |-> "idle"]
    /\ ret = [p \in Providers |-> NotReturned]
    /\ temps = <<>>
    /\ errs = <<>>
    /\ pc = "spawn"
    /\ j = 1
    /\ i = 0
    /\ sum = Zero
    /\ result = NoResult
    /\ tempLog = <<>>
    /\ errLog = <<>>
    /\ queries = NoQueries
    /\ fetch = NoFetch

(* ------------------------- the provider tasks ------------------------- *)

\* for _, provider := range w { go func(p weatherProvider) {...}(provider) }
Spawn ==
    /\ pc = "spawn"
    /\ j <= Len(w)
    /\ gpc' = [gpc EXCEPT ![j] = "call"]
    /\ j' = j + 1
    /\ UNCHANGED <<side, w, ret, temps, errs, pc, i, sum, result, tempLog, errLog>>

\* the range loop ends; sum := 0.0 and the collection loop starts
SpawnDone ==
    /\ pc = "spawn"
    /\ j > Len(w)
    /\ pc' = "collect"
    /\ sum' = Zero
    /\ i' = 0
    /\ UNCHANGED <<side, w, gpc, ret, temps, errs, j, result, tempLog, errLog>>

\* k, err := p.temperature(city)
ProviderReturn(p) ==
    /\ gpc[p] = "call"
    /\ \E o \in ProviderOutcomes(p) : ret' = [ret EXCEPT ![p] = o]
    /\ gpc' = [gpc EXCEPT ![p] = "send"]
    /\ UNCHANGED <<side, w, temps, errs, pc, j, i, sum, result, tempLog, errLog>>

\* (mutant) the return after errs <- err is missing: the task goes on to
\* temps <- k as well
SendErrFallThrough(p) ==
    /\ gpc[p] = "send"
    /\ ret[p].err # NoError
    /\ Len(errs) < Len(w)
    /\ Len(temps) < Len(w)
    /\ errs' = Append(errs, ret[p].err)
    /\ errLog' = Append(errLog, [by |-> p, err |-> ret[p].err])
    /\ temps' = Append(temps, ret[p].k)
    /\ tempLog' = Append(tempLog, [by |-> p, k |-> ret[p].k])
    /\ gpc' = [gpc EXCEPT ![p] = "done"]
    /\ UNCHANGED <<side, w, ret, pc, j, i, sum, result>>

\* if err != nil { errs <- err; return }
SendErr(p) ==
    /\ gpc[p] = "send"
    /\ ret[p].err # NoError
    /\ Len(errs) < ChanCap
    /\ errs' = Append(errs, ret[p].err)
    /\ errLog' = Append(errLog, [by |-> p, err |-> ret[p].err])
    /\ gpc' = [gpc EXCEPT ![p] = "done"]
    /\ UNCHANGED <<side, w, ret, temps, pc, j, i, sum, result, tempLog>>

\* temps <- k
SendTemp(p) ==
    /\ gpc[p] = "send"
    /\ ret[p].err = NoError
    /\ Len(temps) < ChanCap
    /\ temps' = Append(temps, ret[p].k)
    /\ tempLog' = Append(tempLog, [by |-> p, k |-> ret[p].k])
    /\ gpc' = [gpc EXCEPT ![p] = "done"]
    /\ UNCHANGED <<side, w, ret, errs, pc, j, i, sum, result, errLog>>

(* --------------------------- the aggregator --------------------------- *)

\* (mutant) a receive that takes the newest value
RecvNewest(ch) == ch[Len(ch)]

\* the value a receive takes from a channel: the oldest one
Recv(ch) == Head(ch)

\* case temp := <-temps: sum += temp
RecvTemp ==
    /\ pc = "collect"
    /\ i < LoopBound
    /\ temps # <<>>
    /\ i' = i + 1
    /\ temps' = Tail(temps)
    /\ sum' = FAdd[sum, Recv(temps)]
    /\ UNCHANGED <<side, w, gpc, ret, errs, pc, j, result, tempLog, errLog>>

\* (mutant) the received error replaced by a generic aggregation error
ReturnedErrorWrapped(err) == [kind |-> "AggregationError", by |-> 0]

\* the error the aggregator returns for a received error
ReturnedError(err) == err

\* (mutant) the error is taken only once every task has finished
RecvErrWaitAll ==
    /\ pc = "collect"
    /\ i < Len(w)
    /\ errs # <<>>
    /\ \A p \in Providers : gpc[p] = "done"
    /\ pc' = "done"
    /\ errs' = Tail(errs)
    /\ result' = [f |-> Zero, err |-> Head(errs)]
    /\ UNCHANGED <<side, w, gpc, ret, temps, j, i, sum, tempLog, errLog>>

\* (mutant) the error case counts the outcome and goes on collecting
RecvErrContinue ==
    /\ pc = "collect"
    /\ i < Len(w)
    /\ errs # <<>>
    /\ errs' = Tail(errs)
    /\ i' = i + 1
    /\ UNCHANGED <<side, w, gpc, ret, temps, pc, j, sum, result, tempLog, errLog>>

\* case err := <-errs: return 0, err
RecvErr ==
    /\ pc = "collect"
    /\ i < LoopBound
    /\ errs # <<>>
    /\ pc' = "done"
    /\ errs' = Tail(errs)
    /\ result' = [f |-> Zero, err |-> ReturnedError(Recv(errs))]
    /\ UNCHANGED <<side, w, gpc, ret, temps, j, i, sum, tempLog, errLog>>

\* avg := sum / float64(len(w))
Average(s) == FDivNat[s, Len(w)]

\* (mutant) the offset without its fraction
CelsiusTruncated(avg) == FSub[avg, FromInt[273]]

\* c := avg - 273.15
Celsius(avg) == FSub[avg, KelvinOffset]

\* (mutant) the offset subtracted instead of added
FahrenheitMinus(c) ==
    {FSub[FMul[c, FahrenheitFactor], FahrenheitOffset],
     FMulAdd[c, FahrenheitFactor, FNeg[FahrenheitOffset]]}

\* f := c*1.8 + 32: rounded after the product and after the sum, or, where
\* the build fuses the two operations, rounded once.
Fahrenheit(c) ==
    {FAdd[FMul[c, FahrenheitFactor], FahrenheitOffset],
     FMulAdd[c, FahrenheitFactor, FahrenheitOffset]}

\* (mutant) a deadline of the aggregator's own: it stops waiting and reduces
\* what it has
ReduceOnTimeout ==
    /\ pc = "collect"
    /\ pc' = "done"
    /\ \E f \in Fahrenheit(Celsius(Average(sum))) :
           result' = [f |-> f, err |-> NoError]
    /\ UNCHANGED <<side, w, gpc, ret, temps, errs, j, i, sum, tempLog, errLog>>

\* the collection loop ends: average, convert, return f, nil
Reduce ==
    /\ pc = "collect"
    /\ ~(i < LoopBound)
    /\ pc' = "done"
    /\ \E f \in Fahrenheit(Celsius(Average(sum))) :
           result' = [f |-> f, err |-> NoError]
    /\ UNCHANGED <<side, w, gpc, ret, temps, errs, j, i, sum, tempLog, errLog>>

Next ==
    \/ Spawn
    \/ SpawnDone
    \/ \E p \in Providers : ProviderReturn(p)
    \/ \E p \in Providers : SendErr(p)
    \/ \E p \in Providers : SendTemp(p)
    \/ RecvTemp
    \/ RecvErr
    \/ Reduce

Spec == Init /\ [][Next]_vars

(* ------------------------------ fairness ------------------------------ *)

AggStep == Spawn \/ SpawnDone \/ RecvTemp \/ RecvErr \/ Reduce

Task(p) == p \in Providers /\ (ProviderReturn(p) \/ SendErr(p) \/ SendTemp(p))

\* The aggregator's goroutine is scheduled; the provider calls may never return.
AggFairSpec == Init /\ [][Next]_vars /\ WF_vars(AggStep)

\* Every goroutine is scheduled and every provider call returns.
FairSpec ==
    /\ Init /\ [][Next]_vars
    /\ WF_vars(AggStep)
    /\ \A p \in 1..MaxN : WF_vars(Task(p))

(* ------------------------------- claims ------------------------------- *)

Returned == pc = "done"
Failed == Returned /\ result.err # NoError
Succeeded == Returned /\ result.err = NoError

\* C2: a temperature is returned only when all N providers succeeded; when a
\* provider has returned an error the call returns an error, and with an
\* error the value is 0.
C2_NoPartialSuccess ==
    /\ Succeeded => \A p \in Providers : gpc[p] = "done" /\ ret[p].err = NoError
    /\ (Returned /\ \E p \in Providers : ret[p].err \in ProviderErrors(p)) => Failed
    /\ Failed => result.f = Zero

\* an error returned after a success of another provider was already consumed
C2_Witness ==
    /\ Failed
    /\ i >= 1
    /\ Len(errLog) = 1
    /\ errLog[1].by = 1

\* C3: with several failures the call returns one provider error, the first
\* one deposited into the failure channel.
C3_FirstErrorReturned ==
    Failed => /\ errLog # <<>>
              /\ result.err = errLog[1].err
              /\ result.err \in UNION {ProviderErrors(p) : p \in Providers}

\* two failures were deposited before the call returned
C3_Witness ==
    /\ Failed
    /\ Len(errLog) >= 2
    /\ errs # <<>>
    /\ result.err = errLog[1].err
    /\ result.err # errLog[2].err

\* C5: the channels never hold more than N values, at most N outcomes are
\* deposited, and a task that holds an outcome can always send it, also after
\* the aggregator returned.
C5_SendNeverBlocks ==
    /\ Len(temps) <= Len(w)
    /\ Len(errs) <= Len(w)
    /\ Len(tempLog) + Len(errLog) <= Len(w)
    /\ \A p \in Providers :
           gpc[p] = "send" => ENABLED (SendErr(p) \/ SendTemp(p))

\* a task deposits after the aggregator returned on an earlier failure
C5_Witness ==
    /\ Failed
    /\ \E p \in Providers : gpc[p] = "send"
    /\ temps # <<>>

\* C8: a returned error is the error value one of the query's provider calls
\* returned.
C8_VerbatimError ==
    Failed => \E p \in Providers :
                  ret[p].err \in ProviderErrors(p) /\ result.err = ret[p].err

C8_Witness ==
    /\ Failed
    /\ result.err.kind = "DecodeError"
    /\ \E p \in Providers : ret[p].err.kind = "UpstreamError"

\* the number of entries of a log made by provider p
RECURSIVE CountBy(_, _)
CountBy(log, p) ==
    IF log = <<>> THEN 0
    ELSE (IF Head(log).by = p THEN 1 ELSE 0) + CountBy(Tail(log), p)

\* C10: a task whose call returned deposits one outcome on one channel: its
\* temperature on temps if it got no error, else its error on errs; a task
\* that has not finished has deposited nothing; so at most N are deposited.
C10_OneOutcomePerTask ==
    /\ \A p \in Providers :
           /\ CountBy(tempLog, p) + CountBy(errLog, p) = (IF gpc[p] = "done" THEN 1 ELSE 0)
           /\ CountBy(tempLog, p) = 1 => ret[p].err = NoError
           /\ CountBy(errLog, p) = 1 => ret[p].err \in ProviderErrors(p)
    /\ \A k \in 1..Len(tempLog) : tempLog[k].k = ret[tempLog[k].by].k
    /\ \A k \in 1..Len(errLog) : errLog[k].err = ret[errLog[k].by].err
    /\ Len(tempLog) + Len(errLog) <= Len(w)

\* every task of a full provider set has deposited, on both channels
C10_Witness ==
    /\ Len(w) = MaxN
    /\ \A p \in Providers : gpc[p] = "done"
    /\ tempLog # <<>>
    /\ errLog # <<>>
    /\ Len(tempLog) + Len(errLog) = Len(w)

(* ----------------------- the reduction's value ----------------------- *)

\* An exact value (-1)^s * m * 2^e, with no rounding.
ExactInt(n) ==
    [s |-> IF n < 0 THEN 1 ELSE 0, m |-> BFromInt[IF n < 0 THEN -n ELSE n], e |-> 0]

\* |x| <= |y|
ExactAbsLeq(x, y) ==
    LET e == IF x.e < y.e THEN x.e ELSE y.e
    IN  BCmp[BShl[x.m, x.e - e], BShl[y.m, y.e - e]] <= 0

\* the exact sum of the temperatures the providers 1..n returned
RECURSIVE ExactSumTo(_)
ExactSumTo(n) == IF n = 0 THEN ExactInt(0) ELSE ExactAdd[ExactSumTo(n - 1), Ex(ret[n].k)]

\* 100 * N * (f - ((S / N - 273.15) * 1.8 + 32)) = 100*N*f - 180*S + 45967*N
ScaledDeviation(f) ==
    ExactAdd[ExactAdd[ExactMul[ExactInt(100 * Len(w)), Ex(f)],
                      ExactMul[ExactInt(-180), ExactSumTo(Len(w))]],
             ExactInt(45967 * Len(w))]

\* f is within 10^-9 of (mean - 273.15) * 1.8 + 32, in exact arithmetic
NearExactReport(f) ==
    /\ f.k = "num"
    /\ ExactAbsLeq(ExactMul[ExactInt(10000000), ScaledDeviation(f)], ExactInt(Len(w)))

\* the float64 sum 0.0 + t[order[1]] + ... in the given order of providers
RECURSIVE SumInOrder(_, _)
SumInOrder(order, n) ==
    IF n = 0 THEN Zero ELSE FAdd[SumInOrder(order, n - 1), ret[order[n]].k]

\* the values the source's expression yields for the sum taken in that order
ReportFor(order) ==
    LET avg == FDivNat[SumInOrder(order, Len(order)), Len(order)]
        c   == FSub[avg, Dec(27315, 100)]
    IN  {FAdd[FMul[c, Dec(18, 10)], FromInt[32]],
         FMulAdd[c, Dec(18, 10), FromInt[32]]}

DeclarationOrder == [p \in Providers |-> p]
ArrivalOrder == [k \in 1..Len(tempLog) |-> tempLog[k].by]

AllSucceeded ==
    /\ Len(w) >= 1
    /\ \A p \in Providers : ret[p].err = NoError

\* C1 as stated: when all N providers succeed the call returns no error and
\* (mean - 273.15) * 1.8 + 32, the same value for every arrival order, that is
\* the value the declaration order gives.
C1_OrderIndependent ==
    (Returned /\ AllSucceeded) =>
        /\ result.err = NoError
        /\ result.f \in ReportFor(DeclarationOrder)

\* C1 amended: when all N providers succeed the call returns no error and the
\* float64 value of ((t_a1 + ... + t_aN) / N - 273.15) * 1.8 + 32 summed in
\* arrival order a1..aN, which is within 10^-9 of the exact value; it is the
\* same for every arrival order when N <= 2, and exactly 32 for N = 1 and
\* t1 = 273.15.
C1_MeanInArrivalOrder ==
    (Returned /\ AllSucceeded) =>
        /\ result.err = NoError
        /\ NearExactReport(result.f)
        /\ result.f \in ReportFor(ArrivalOrder)
        /\ Len(w) <= 2 => result.f \in ReportFor(DeclarationOrder)
        /\ (Len(w) = 1 /\ ret[1].k = Dec(27315, 100)) => result.f = FromInt[32]

\* three successes consumed in an order that is not the declaration order,
\* with a value the declaration order does not give
C1_Witness ==
    /\ Succeeded
    /\ Len(w) = 3
    /\ ArrivalOrder # DeclarationOrder
    /\ result.f \notin ReportFor(DeclarationOrder)

\* the providers returned 300.0, 310.0 and 290.0, in some assignment
Scenario300_310_290 ==
    /\ Len(w) = 3
    /\ \A p \in Providers : ret[p].err = NoError
    /\ {ret[p].k : p \in Providers} = {FromInt[300], FromInt[310], FromInt[290]}

\* C9 as stated: 300.0, 310.0 and 290.0 give mean 300.0 and the value 80.87.
C9_Reports80_87 ==
    (Returned /\ Scenario300_310_290) =>
        /\ result.err = NoError
        /\ Average(sum) = FromInt[300]
        /\ result.f = Dec(8087, 100)

\* 80.33000000000004, the float64 nearest to 8033000000000004 / 10^14
Float80_33 ==
    RoundRatio[0, BAdd[BMul[BFromInt[80330000], BFromInt[100000000]], BFromInt[4]],
               <<10000, 10000, 10000, 100>>, 0]

\* C9 amended: 300.0, 310.0 and 290.0 give mean 300.0 and the value
\* 80.33000000000004, the float64 result of (300.0 - 273.15) * 1.8 + 32 = 80.33.
C9_Reports80_33 ==
    (Returned /\ Scenario300_310_290) =>
        /\ result.err = NoError
        /\ sum = FromInt[900]
        /\ Average(sum) = FromInt[300]
        /\ result.f = Float80_33
        /\ NearExactReport(result.f)

C9_Witness ==
    /\ Succeeded
    /\ Scenario300_310_290
    /\ ret[1].k = FromInt[300] /\ ret[2].k = FromInt[310] /\ ret[3].k = FromInt[290]
    /\ result.f = Float80_33

\* the error a guarded aggregator reports for an empty provider set
ConfigurationError == [kind |-> "ConfigurationError", by |-> 0]

\* C6: on an empty provider set the call returns a ConfigurationError, and
\* never a value that is not a number.
C6_ZeroProvidersRejected ==
    (Returned /\ Len(w) = 0) =>
        /\ result.err = ConfigurationError
        /\ result.f.k = "num"

(* ------------------------ temporal properties ------------------------ *)

\* C4: once a failure is deposited, the aggregator returns the first failure
\* by its own steps alone: the error case of its select is enabled whenever
\* it collects and errs holds a value, and it returns although no further
\* provider call ever returns.
C4_FirstErrorWins ==
    /\ []((pc = "collect" /\ errs # <<>>) => ENABLED RecvErr)
    /\ (errLog # <<>>) ~> (Failed /\ result.err = errLog[1].err)

\* the call has returned the error while every other provider call is still
\* in flight
C4_Witness ==
    /\ Failed
    /\ Len(w) = MaxN
    /\ Cardinality({p \in Providers : gpc[p] = "call"}) = Len(w) - 1
    /\ Len(errLog) = 1

\* one result: a number and no error, or a provider's error and no value
OneResult ==
    \/ result.err = NoError /\ result.f.k = "num"
    \/ result.err \in UNION {ProviderErrors(p) : p \in Providers} /\ result.f = Zero

\* C7: for N >= 1, when every provider call returns, the call is never stuck
\* before it returns (some goroutine can take a step), and it returns one
\* result and keeps it.
C7_Termination ==
    /\ []((Len(w) >= 1 /\ ~Returned) => ENABLED Next)
    /\ (Len(w) >= 1) => <>[](Returned /\ OneResult)

\* the call of a full provider set returned after every task finished
C7_Witness ==
    /\ Returned
    /\ OneResult
    /\ Len(w) = MaxN
    /\ \A p \in Providers : gpc[p] = "done"

(* ------------------- outcomes and the end of the call ------------------ *)

\* the numbers of temperatures and of errors the collection loop has received
TempsReceived == Len(tempLog) - Len(temps)
ErrsReceived == Len(errLog) - Len(errs)

\* C13: temperature(city) returns only after it received N temperatures or
\* one error; while a provider call has not returned and no provider has
\* returned an error it has not returned, however many temperatures arrived.
C13_NoIntrinsicTimeout ==
    Returned =>
        /\ \/ Succeeded /\ TempsReceived = Len(w) /\ ErrsReceived = 0
           \/ Failed /\ ErrsReceived = 1 /\ TempsReceived < Len(w)
        /\ \/ \A p \in Providers : gpc[p] \in {"send", "done"}
           \/ \E p \in Providers : ret[p].err.kind \in ErrKinds

\* all providers of a full set but one have succeeded and were consumed; the
\* last call has not returned and the collection loop can take no step
C13_Witness ==
    /\ pc = "collect"
    /\ Len(w) = MaxN
    /\ i = Len(w) - 1
    /\ Cardinality({p \in Providers : gpc[p] = "call"}) = 1
    /\ ~ENABLED AggStep

(* ------------------------ the sequential mean ------------------------- *)

\* func temperature(city string, providers ...weatherProvider), with w as its
\* providers: sum := 0.0 and the range loop at its first provider
SeqInit ==
    /\ w \in {[p \in 1..n |-> p] : n \in 0..MaxN}
    /\ gpc = [p \in Providers |-> "idle"]
    /\ ret = [p \in Providers |-> NotReturned]
    /\ temps = <<>>
    /\ errs = <<>>
    /\ pc = "seq"
    /\ j = 1
    /\ i = 0
    /\ sum = Zero
    /\ result = NoResult
    /\ tempLog = <<>>
    /\ errLog = <<>>
    /\ queries = NoQueries
    /\ fetch = NoFetch

\* (mutant) a failed provider is skipped and the loop goes on
SeqIterSkipFailed ==
    /\ pc = "seq"
    /\ j <= Len(w)
    /\ \E o \in ProviderOutcomes(j) :
           /\ ret' = [ret EXCEPT ![j] = o]
           /\ sum' = IF o.err # NoError THEN sum ELSE FAdd[sum, o.k]
    /\ j' = j + 1
    /\ UNCHANGED <<side, w, gpc, temps, errs, pc, i, result, tempLog, errLog>>

\* k, err := provider.temperature(city); if err != nil { return 0, err };
\* sum += k
SeqIter ==
    /\ pc = "seq"
    /\ j <= Len(w)
    /\ \E o \in ProviderOutcomes(j) :
           /\ ret' = [ret EXCEPT ![j] = o]
           /\ IF o.err # NoError
              THEN /\ pc' = "done"
                   /\ result' = [f |-> Zero, err |-> o.err]
                   /\ UNCHANGED <<j, sum>>
              ELSE /\ j' = j + 1
                   /\ sum' = FAdd[sum, o.k]
                   /\ UNCHANGED <<pc, result>>
    /\ UNCHANGED <<side, w, gpc, temps, errs, i, tempLog, errLog>>

\* return sum / float64(len(providers)), nil
SeqReturn ==
    /\ pc = "seq"
    /\ j > Len(w)
    /\ pc' = "done"
    /\ result' = [f |-> FDivNat[sum, Len(w)], err |-> NoError]
    /\ UNCHANGED <<side, w, gpc, ret, temps, errs, j, i, sum, tempLog, errLog>>

SeqNext == SeqIter \/ SeqReturn

SeqSpec == SeqInit /\ [][SeqNext]_vars

\* the providers whose temperature(city) has been invoked
Invoked == {p \in Providers : ret[p] # NotReturned}

\* 10^9 * (N * f - S), for the exact sum S of the N temperatures returned
ScaledMeanDeviation(f) ==
    ExactMul[ExactInt(1000000000),
             ExactAdd[ExactMul[ExactInt(Len(w)), Ex(f)],
                      ExactMul[ExactInt(-1), ExactSumTo(Len(w))]]]

\* C16: the sequential temperature(city, providers...) invokes the providers
\* one at a time in declaration order; at the first provider that returns an
\* error it returns (0, that error) and invokes no later provider; when all
\* succeed it returns the mean of the values in Kelvin (the float64 sum in
\* declaration order over N, within 10^-9 of the exact mean), not converted.
C16_SequentialMean ==
    /\ Invoked = {p \in Providers : p < j \/ (Failed /\ p = j)}
    /\ \A p \in Providers : p < j => ret[p].err = NoError
    /\ Failed => /\ ret[j].err \in ProviderErrors(j)
                 /\ result = [f |-> Zero, err |-> ret[j].err]
    /\ Succeeded =>
           /\ Invoked = Providers
           /\ result.f = FDivNat[SumInOrder(DeclarationOrder, Len(w)), Len(w)]
           /\ Len(w) >= 1 =>
                  /\ result.f.k = "num"
                  /\ ExactAbsLeq(ScaledMeanDeviation(result.f), ExactInt(Len(w)))
           /\ Len(w) = 1 => result.f = ret[1].k

\* the second of MaxN providers failed after the first succeeded: the call
\* returned its error and the last provider was not invoked
C16_Witness ==
    /\ Failed
    /\ Len(w) = MaxN
    /\ j = 2
    /\ Invoked = {1, 2}
    /\ sum # Zero

(* ----------------------- the concrete providers ----------------------- *)

\* openWeatherMap, weatherUnderground and darkSky
ProviderKinds == {"openWeatherMap", "weatherUnderground", "darkSky"}

\* the temperatures an upstream may report, in its own unit
UpstreamTemps == {Zero, Dec(2685, 100), FromInt[300]}

\* A response body: json says whether it decodes into the expected struct;
\* has, whether it holds the temperature field (temp), which else keeps its
\* zero value; results is the length of the geocoder's Results.
WeatherBodies ==
    {[json |-> FALSE, has |-> FALSE, temp |-> Zero, results |-> 0],
     [json |-> TRUE, has |-> FALSE, temp |-> Zero, results |-> 0]}
        \cup {[json |-> TRUE, has |-> TRUE, temp |-> v, results |-> 0] : v \in UpstreamTemps}
GeocodeBodies ==
    {[json |-> FALSE, has |-> FALSE, temp |-> Zero, results |-> 0]}
        \cup {[json |-> TRUE, has |-> FALSE, temp |-> Zero, results |-> n] : n \in {0, 1}}

\* the HTTP statuses an upstream may answer with
Statuses == {200, 404, 503}

UpstreamError == [kind |-> "UpstreamError", by |-> 0]
DecodeError == [kind |-> "DecodeError", by |-> 0]

\* What http.Get returns: an error when no response was obtained, else the
\* response, whatever its status.
HttpGet(bodies) ==
    {[err |-> UpstreamError, status |-> 0,
      body |-> [json |-> FALSE, has |-> FALSE, temp |-> Zero, results |-> 0]]}
        \cup {[err |-> NoError, status |-> s, body |-> b] : s \in Statuses, b \in bodies}

\* json.NewDecoder(resp.Body).Decode(&d)
Decode(body) == IF body.json THEN NoError ELSE DecodeError

\* (mutant) the native value returned as it is
KelvinUnconverted(kind, v) == v

\* return d.Main.Kelvin, nil; kelvin := d.Observation.Celsius + 273.15;
\* kelvin := d.Currently.Temperature + 273.15
Kelvin(kind, v) == IF kind = "openWeatherMap" THEN v ELSE FAdd[v, KelvinOffset]

\* a call of temperature(city) of one provider, at its first statement
FetchInit ==
    /\ w = <<>>
    /\ gpc = <<>>
    /\ ret = <<>>
    /\ temps = <<>>
    /\ errs = <<>>
    /\ pc = "spawn"
    /\ j = 1
    /\ i = 0
    /\ sum = Zero
    /\ result = NoResult
    /\ tempLog = <<>>
    /\ errLog = <<>>
    /\ queries = NoQueries
    /\ fetch \in {[kind |-> kd,
                   pc |-> IF kd = "darkSky" THEN "coords" ELSE "get",
                   got |-> <<>>,
                   ret |-> NotReturned] : kd \in ProviderKinds}

\* the response of the last http.Get
LastGot == fetch.got[Len(fetch.got)]

\* getCoords: res, err := http.Get(...); if err != nil { return 0, 0, err },
\* and in temperature: if err != nil { return 0, err }
GetCoords ==
    /\ fetch.pc = "coords"
    /\ \E r \in HttpGet(GeocodeBodies) :
           fetch' = [fetch EXCEPT
                        !.got = Append(@, r),
                        !.pc = IF r.err # NoError THEN "done" ELSE "coordsDecode",
                        !.ret = IF r.err # NoError THEN [k |-> Zero, err |-> r.err] ELSE @]
    /\ UNCHANGED <<w, gpc, ret, temps, errs, pc, j, i, sum, result, tempLog, errLog, queries>>

\* getCoords: Decode(&g), then g.Results[0], which panics on an empty Results
DecodeCoords ==
    /\ fetch.pc = "coordsDecode"
    /\ fetch' = [fetch EXCEPT
                    !.pc = IF Decode(LastGot.body) # NoError THEN "done"
                           ELSE IF LastGot.body.results = 0 THEN "panic"
                           ELSE "get",
                    !.ret = IF Decode(LastGot.body) # NoError
                            THEN [k |-> Zero, err |-> Decode(LastGot.body)]
                            ELSE @]
    /\ UNCHANGED <<w, gpc, ret, temps, errs, pc, j, i, sum, result, tempLog, errLog, queries>>

\* resp, err := http.Get(...); if err != nil { return 0, err }
Get ==
    /\ fetch.pc = "get"
    /\ \E r \in HttpGet(WeatherBodies) :
           fetch' = [fetch EXCEPT
                        !.got = Append(@, r),
                        !.pc = IF r.err # NoError THEN "done" ELSE "decode",
                        !.ret = IF r.err # NoError THEN [k |-> Zero, err |-> r.err] ELSE @]
    /\ UNCHANGED <<w, gpc, ret, temps, errs, pc, j, i, sum, result, tempLog, errLog, queries>>

\* if err := Decode(&d); err != nil { return 0, err }; return kelvin, nil
DecodeTemp ==
    /\ fetch.pc = "decode"
    /\ fetch' = [fetch EXCEPT
                    !.pc = "done",
                    !.ret = IF Decode(LastGot.body) # NoError
                            THEN [k |-> Zero, err |-> Decode(LastGot.body)]
                            ELSE [k |-> Kelvin(fetch.kind, LastGot.body.temp),
                                  err |-> NoError]]
    /\ UNCHANGED <<w, gpc, ret, temps, errs, pc, j, i, sum, result, tempLog, errLog, queries>>

FetchNext == GetCoords \/ DecodeCoords \/ Get \/ DecodeTemp

FetchSpec == FetchInit /\ [][FetchNext]_vars

\* the call has returned to its caller
FetchReturned == fetch.pc = "done"

\* the coordinate step of darkSky is over and gave no coordinates: the
\* geocoding call failed, its body did not decode, or Results was empty
GeocodeFailed ==
    /\ fetch.kind = "darkSky"
    /\ fetch.got # <<>>
    /\ fetch.pc # "coordsDecode"
    /\ \/ fetch.got[1].err # NoError
       \/ Decode(fetch.got[1].body) # NoError
       \/ fetch.got[1].body.results = 0

\* C17: whenever the coordinate step of darkSky fails, temperature(city)
\* returns an error to its caller, the weather-by-coordinates call is not
\* made, and the process does not crash.
C17_GeocodeFailureIsError ==
    GeocodeFailed =>
        /\ fetch.pc # "panic"
        /\ FetchReturned
        /\ fetch.ret.err # NoError
        /\ Len(fetch.got) = 1

\* an upstream of the call answered with a status outside 2xx
NonSuccessAnswer ==
    \E n \in 1..Len(fetch.got) :
        fetch.got[n].err = NoError /\ fetch.got[n].status \notin 200..299

\* C18: a provider's temperature(city) returns an error and no temperature
\* whenever its upstream answered with a non-success HTTP status.
C18_NonSuccessIsError ==
    (FetchReturned /\ NonSuccessAnswer) =>
        fetch.ret.err # NoError /\ fetch.ret.k = Zero

\* C19: a value returned with a nil error is in Kelvin: openWeatherMap
\* returns the decoded upstream value unchanged, weatherUnderground and
\* darkSky return the decoded Celsius value + 273.15 (0 Celsius gives 273.15,
\* 26.85 Celsius gives 300.0); a missing field decodes as 0.
C19_NormalizedAtBoundary ==
    (FetchReturned /\ fetch.ret.err = NoError) =>
        LET d == LastGot.body
        IN  /\ d.json
            /\ ~d.has => d.temp = Zero
            /\ fetch.kind = "openWeatherMap" => fetch.ret.k = d.temp
            /\ fetch.kind # "openWeatherMap" =>
                   /\ fetch.ret.k = FAdd[d.temp, Dec(27315, 100)]
                   /\ d.temp = Zero => fetch.ret.k = Dec(27315, 100)
                   /\ d.temp = Dec(2685, 100) => fetch.ret.k = FromInt[300]

\* darkSky, after a geocoding that gave coordinates, returned 300.0 for an
\* upstream value of 26.85 Celsius
C19_Witness ==
    /\ FetchReturned
    /\ fetch.kind = "darkSky"
    /\ fetch.ret.err = NoError
    /\ LastGot.body.has
    /\ LastGot.body.temp = Dec(2685, 100)
    /\ fetch.ret.k = FromInt[300]

(* -------------------------- concurrent calls -------------------------- *)

\* The number of concurrent calls of multiWeatherProvider.temperature, and
\* the largest provider set they run on.
MaxQueries == 2
MaxConcurrentN == 2

\* the cities asked for
Cities == {"oslo", "lima"}

\* What a provider call of a concurrent query may return.
QueryOutcomes(p) ==
    {[k |-> t, err |-> NoError] : t \in {FromInt[290], FromInt[310]}}
        \cup {[k |-> Zero, err |-> [kind |-> "UpstreamError", by |-> p]]}

\* the state of the aggregator variables when no single call is followed
single == <<w, gpc, ret, temps, errs, pc, j, i, sum, result, tempLog, errLog>>

\* A call of temperature(city): its parameter, its two channels, its locals,
\* its tasks; calls and taken are history: the provider invocations its tasks
\* made and the channel values its loop received. A channel value carries the
\* call (of) and the task (by) that sent it, the number of its deposit among
\* the deposits on the two channels (at), and whether the sender's call had
\* returned (late).
Query(city) ==
    [city |-> city,
     gpc |-> [n \in Providers |-> "idle"],
     ret |-> [n \in Providers |-> NotReturned],
     temps |-> <<>>,
     errs |-> <<>>,
     pc |-> "spawn",
     j |-> 1,
     i |-> 0,
     sum |-> Zero,
     result |-> NoResult,
     calls |-> <<>>,
     taken |-> <<>>]

\* MaxQueries calls of temperature on one provider set; the first call's
\* city is fixed, the other cities are the same one or another.
ConcInit ==
    /\ w \in {[p \in 1..n |-> p] : n \in 0..MaxConcurrentN}
    /\ gpc = [p \in Providers |-> "idle"]
    /\ ret = [p \in Providers |-> NotReturned]
    /\ temps = <<>>
    /\ errs = <<>>
    /\ pc = "spawn"
    /\ j = 1
    /\ i = 0
    /\ sum = Zero
    /\ result = NoResult
    /\ tempLog = <<>>
    /\ errLog = <<>>
    /\ fetch = NoFetch
    /\ \E cs \in [1..MaxQueries -> Cities] :
           /\ cs[1] = "oslo"
           /\ queries = [q \in 1..MaxQueries |-> Query(cs[q])]

Queries == 1..Len(queries)

\* (mutant) the closure reads the loop variable, which holds the last
\* provider by the time the tasks run
SpawnedLast(n) == w[Len(w)]

\* go func(p weatherProvider) {...}(provider): the provider task n is given
Spawned(n) == w[n]

\* (mutant) one pair of channels shared by all calls
TaskChannelsShared(q) == 1

\* the call whose temps and errs a task of call q sends on: the channels are
\* locals of the call, captured by its closures
TaskChannels(q) == q

\* for _, provider := range w { go func(p weatherProvider) {...}(provider) }
QSpawn(q) ==
    LET s == queries[q]
    IN  /\ s.pc = "spawn"
        /\ s.j <= Len(w)
        /\ queries' = [queries EXCEPT ![q] =
               [s EXCEPT !.gpc[s.j] = "call",
                         !.j = s.j + 1,
                         !.calls = Append(@, [p |-> Spawned(s.j), city |-> s.city])]]
        /\ UNCHANGED <<single, fetch>>

\* the range loop ends; sum := 0.0 and the collection loop starts
QSpawnDone(q) ==
    LET s == queries[q]
    IN  /\ s.pc = "spawn"
        /\ s.j > Len(w)
        /\ queries' = [queries EXCEPT ![q] =
               [s EXCEPT !.pc = "collect", !.sum = Zero, !.i = 0]]
        /\ UNCHANGED <<single, fetch>>

\* k, err := p.temperature(city)
QProviderReturn(q, n) ==
    LET s == queries[q]
    IN  /\ s.gpc[n] = "call"
        /\ \E o \in QueryOutcomes(s.calls[n].p) :
               queries' = [queries EXCEPT ![q] =
                   [s EXCEPT !.ret[n] = o, !.gpc[n] = "send"]]
        /\ UNCHANGED <<single, fetch>>

\* history: the number of values deposited so far on the channels of call c
QDeposits(c) == Len(queries[c].taken) + Len(queries[c].temps) + Len(queries[c].errs)

\* the value a task of call q deposits on the channels of call c
Deposit(q, n, c, v) ==
    [of |-> q, by |-> n, v |-> v, at |-> QDeposits(c) + 1, late |-> queries[q].pc = "done"]

\* if err != nil { errs <- err; return }
QSendErr(q, n) ==
    LET s == queries[q]
        c == TaskChannels(q)
    IN  /\ s.gpc[n] = "send"
        /\ s.ret[n].err # NoError
        /\ Len(queries[c].errs) < ChanCap
        /\ queries' = [queries EXCEPT
               ![q].gpc[n] = "done",
               ![c].errs = Append(@, Deposit(q, n, c, s.ret[n].err))]
        /\ UNCHANGED <<single, fetch>>

\* temps <- k
QSendTemp(q, n) ==
    LET s == queries[q]
        c == TaskChannels(q)
    IN  /\ s.gpc[n] = "send"
        /\ s.ret[n].err = NoError
        /\ Len(queries[c].temps) < ChanCap
        /\ queries' = [queries EXCEPT
               ![q].gpc[n] = "done",
               ![c].temps = Append(@, Deposit(q, n, c, s.ret[n].k))]
        /\ UNCHANGED <<single, fetch>>

\* case temp := <-temps: sum += temp
QRecvTemp(q) ==
    LET s == queries[q]
    IN  /\ s.pc = "collect"
        /\ s.i < LoopBound
        /\ s.temps # <<>>
        /\ queries' = [queries EXCEPT ![q] =
               [s EXCEPT !.i = s.i + 1,
                         !.temps = Tail(s.temps),
                         !.taken = Append(@, Recv(s.temps)),
                         !.sum = FAdd[s.sum, Recv(s.temps).v]]]
        /\ UNCHANGED <<single, fetch>>

\* case err := <-errs: return 0, err
QRecvErr(q) ==
    LET s == queries[q]
    IN  /\ s.pc = "collect"
        /\ s.i < LoopBound
        /\ s.errs # <<>>
        /\ queries' = [queries EXCEPT ![q] =
               [s EXCEPT !.pc = "done",
                         !.errs = Tail(s.errs),
                         !.taken = Append(@, Recv(s.errs)),
                         !.result = [f |-> Zero, err |-> ReturnedError(Recv(s.errs).v)]]]
        /\ UNCHANGED <<single, fetch>>

\* the collection loop ends: average, convert, return f, nil
QReduce(q) ==
    LET s == queries[q]
    IN  /\ s.pc = "collect"
        /\ ~(s.i < LoopBound)
        /\ \E f \in Fahrenheit(Celsius(Average(s.sum))) :
               queries' = [queries EXCEPT ![q] =
                   [s EXCEPT !.pc = "done", !.result = [f |-> f, err |-> NoError]]]
        /\ UNCHANGED <<single, fetch>>

ConcNext ==
    \/ \E q \in Queries : QSpawn(q)
    \/ \E q \in Queries : QSpawnDone(q)
    \/ \E q \in Queries : \E n \in Providers : QProviderReturn(q, n)
    \/ \E q \in Queries : \E n \in Providers : QSendErr(q, n)
    \/ \E q \in Queries : \E n \in Providers : QSendTemp(q, n)
    \/ \E q \in Queries : QRecvTemp(q)
    \/ \E q \in Queries : QRecvErr(q)
    \/ \E q \in Queries : QReduce(q)

ConcSpec == ConcInit /\ [][ConcNext]_vars

\* the float64 sum 0.0 + msgs[1].v + ... + msgs[n].v
RECURSIVE SumOfTaken(_, _)
SumOfTaken(msgs, n) ==
    IF n = 0 THEN Zero ELSE FAdd[SumOfTaken(msgs, n - 1), msgs[n].v]

\* the values the source's expression yields for the temperatures received
ReportOfTaken(msgs) ==
    LET avg == FDivNat[SumOfTaken(msgs, Len(msgs)), Len(msgs)]
        c   == FSub[avg, Dec(27315, 100)]
    IN  {FAdd[FMul[c, Dec(18, 10)], FromInt[32]],
         FMulAdd[c, Dec(18, 10), FromInt[32]]}

\* a channel value of call q is an outcome of call q's own task by
OwnOutcome(q, m) ==
    /\ m.of = q
    /\ m.by \in Providers
    /\ m.v = IF queries[q].ret[m.by].err = NoError
             THEN queries[q].ret[m.by].k
             ELSE queries[q].ret[m.by].err

\* C14: concurrent calls of temperature on one provider set are isolated:
\* each call's channels hold, and its loop receives, only outcomes of its own
\* tasks, one per task at most; its result is computed from the outcomes of
\* its own provider calls alone; the provider set is left as it was.
C14_QueryIsolation ==
    /\ w = [p \in 1..Len(w) |-> p]
    /\ \A q \in Queries :
        LET s == queries[q]
            all == s.taken \o s.temps \o s.errs
        IN  /\ DOMAIN s.gpc = Providers
            /\ \A n \in 1..Len(all) : OwnOutcome(q, all[n])
            /\ \A n, m \in 1..Len(all) : all[n].by = all[m].by => n = m
            /\ (s.pc = "done" /\ s.result.err = NoError) =>
                   /\ Len(s.taken) = Len(w)
                   /\ \A n \in Providers : s.ret[n].err = NoError
                   /\ s.result.f \in ReportOfTaken(s.taken)
            /\ (s.pc = "done" /\ s.result.err # NoError) =>
                   /\ s.result.f = Zero
                   /\ s.result.err = s.taken[Len(s.taken)].v
                   /\ s.result.err = s.ret[s.taken[Len(s.taken)].by].err

\* two calls for the same city on a full provider set ran to their end with
\* different results: one failed, the other returned a temperature
C14_Witness ==
    /\ Len(queries) = MaxQueries
    /\ Len(w) = MaxConcurrentN
    /\ queries[1].city = queries[2].city
    /\ queries[1].pc = "done" /\ queries[1].result.err # NoError
    /\ queries[2].pc = "done" /\ queries[2].result.err = NoError
    /\ \A q \in Queries : \A n \in Providers : queries[q].gpc[n] = "done"

\* C15: a call of temperature on N providers launches N tasks, one per
\* provider in declaration order; each provider's temperature is invoked once
\* per call, with the call's city; all N tasks are launched before the loop
\* receives its first outcome.
C15_FanOut ==
    \A q \in Queries :
        LET s == queries[q]
        IN  /\ Len(s.calls) = s.j - 1
            /\ Len(s.calls) <= Len(w)
            /\ \A n \in 1..Len(s.calls) : s.calls[n] = [p |-> w[n], city |-> s.city]
            /\ \A n \in Providers : s.gpc[n] # "idle" <=> n <= Len(s.calls)
            /\ s.pc # "spawn" =>
                   \A p \in Providers :
                       Cardinality({n \in 1..Len(s.calls) : s.calls[n].p = p}) = 1
            /\ (s.taken # <<>> \/ s.pc = "done") => Len(s.calls) = Len(w)

\* two calls for different cities on a full provider set, both collecting,
\* one of them having received an outcome already
C15_Witness ==
    /\ Len(queries) = MaxQueries
    /\ Len(w) = MaxConcurrentN
    /\ queries[1].city # queries[2].city
    /\ \A q \in Queries : queries[q].pc = "collect" /\ Len(queries[q].calls) = Len(w)
    /\ queries[1].taken # <<>>

(* --------------- deposits and receives of a call, in time -------------- *)

\* the values waiting in the channels of call q
Waiting(q) == queries[q].temps \o queries[q].errs

QFailed(q) == queries[q].pc = "done" /\ queries[q].result.err # NoError
QSucceeded(q) == queries[q].pc = "done" /\ queries[q].result.err = NoError

\* C11 (as stated): after temperature(city) has returned no task of the call
\* deposits a value on temps or on errs.
C11_NoDepositAfterReturn ==
    \A q \in Queries :
        /\ \A n \in 1..Len(Waiting(q)) : ~Waiting(q)[n].late
        /\ \A n \in 1..Len(queries[q].taken) : ~queries[q].taken[n].late

\* C11 (amended): a task deposits its outcome when its call returns, also
\* after temperature(city) has returned. That happens only after a return on
\* a failure; the value stays in its channel and is never received. After a
\* successful return no task deposits, and nothing is left in the channels.
C11_LateDepositsDiscarded ==
    \A q \in Queries :
        /\ \A n \in 1..Len(Waiting(q)) : Waiting(q)[n].late => QFailed(q)
        /\ \A n \in 1..Len(queries[q].taken) : ~queries[q].taken[n].late
        /\ QSucceeded(q) => Waiting(q) = <<>>
        /\ QFailed(q) => Len(queries[q].taken) = queries[q].i + 1

\* a call on a full provider set returned on the failure of one task; the
\* other task deposited its temperature afterwards
C11_Witness ==
    /\ Len(w) = MaxConcurrentN
    /\ QFailed(1)
    /\ queries[1].taken = <<queries[1].taken[1]>>
    /\ \E n \in 1..Len(queries[1].temps) : queries[1].temps[n].late

\* C12: the collection loop receives the outcomes in the order of their
\* deposits over both channels: the values received are in deposit order, and
\* no value still waiting in temps or errs was deposited before one received.
C12_ConsumedInArrivalOrder ==
    \A q \in Queries :
        LET got == queries[q].taken
        IN  /\ \A n, m \in 1..Len(got) : n < m => got[n].at < got[m].at
            /\ \A n \in 1..Len(got) : \A m \in 1..Len(Waiting(q)) :
                   got[n].at < Waiting(q)[m].at

====
